---- MODULE Spec2Model ----
(***************************************************************************)
(* spoticus: a Slack bot that routes chat commands (launch, list, help)    *)
(* to handlers.  The model covers the socket-mode event loop (Slack.Run),  *)
(* the dispatcher (HandleMessageEvent), both HandleLaunch source variants, *)
(* HandleList, handleHelp and respondError.                                *)
(*                                                                         *)
(* A message text is a sequence of items: SP is one whitespace character,  *)
(* any other item is a maximal run of non-whitespace characters (a word),  *)
(* so two words are never adjacent.  A reply text is a sequence of parts,  *)
(* one per fmt.Sprintf / WriteString of the source.                        *)
(***************************************************************************)
EXTENDS Integers, Sequences, FiniteSets, TLC

VARIABLES
    proc,       \* main: the two tokens read, whether the bot exists, the fatal message
    variant,    \* which HandleLaunch source is built in: "plain" | "probe"
    queue,      \* s.client.Events: events delivered and not yet received
    delivered,  \* number of events the transport has delivered so far
    pc,         \* position of the consuming goroutine
    cur,        \* the event the consumer received last
    inv,        \* handler invocations made for cur: <<[handler, args]>>
    calls,      \* control-plane calls made for cur, with their answers
    kinds,      \* kindsList.Items of the running HandleList
    out,        \* the message the running handler is about to post
    posts,      \* PostMessage attempts made for cur
    logs,       \* log lines written for cur
    acks,       \* ids passed to s.client.Ack, in order
    postOrder,  \* ids of the events replied to, in order of the posts
    replies     \* launch/help replies posted so far: {[tokens, text]}

vars == <<proc, variant, queue, delivered, pc, cur, inv, calls, kinds, out, posts,
          logs, acks, postOrder, replies>>

-----------------------------------------------------------------------------
(* Bounds *)

MaxEvents == 2      \* events the transport delivers in one run
MaxArgs == 3        \* arguments typed after a launch keyword
MaxOtherArgs == 1   \* arguments typed after any other keyword

-----------------------------------------------------------------------------
(* Strings *)

SP == " "

KeyWords == {"launch", "LAUNCH", "list", "List", "help", "HELP", "bogus"}
ArgWords == {"k8s", "OpenShift", "kubernetes", "medium", "LARGE", "huge"}

\* strings.ToLower on the words of the model
ToLower(w) ==
    CASE w = "LAUNCH" -> "launch"
      [] w = "List" -> "list"
      [] w = "HELP" -> "help"
      [] w = "OpenShift" -> "openshift"
      [] w = "LARGE" -> "large"
      [] OTHER -> w

RECURSIVE TrimLeft(_)
TrimLeft(t) == IF t # <<>> /\ Head(t) = SP THEN TrimLeft(Tail(t)) ELSE t

RECURSIVE TrimRight(_)
TrimRight(t) ==
    IF t # <<>> /\ t[Len(t)] = SP THEN TrimRight(SubSeq(t, 1, Len(t) - 1)) ELSE t

\* strings.TrimSpace
TrimSpace(t) == TrimRight(TrimLeft(t))

\* strings.Fields: the maximal runs of non-whitespace, in order
RECURSIVE Fields(_)
Fields(t) ==
    IF t = <<>> THEN <<>>
    ELSE IF Head(t) = SP THEN Fields(Tail(t))
    ELSE <<Head(t)>> \o Fields(Tail(t))

\* the orders in which a Go map with key set S may be ranged over
Perms(S) ==
    {p \in [1..Cardinality(S) -> S] : \A i, j \in DOMAIN p : i # j => p[i] # p[j]}

\* one formatted piece of a reply: t names the format string, a its string
\* operands, n its integer operand (0 when it has none)
PartN(t, a, n) == [t |-> t, a |-> a, n |-> n]

Part(t, a) == PartN(t, a, 0)

-----------------------------------------------------------------------------
(* Catalog and registry *)

supportedClusterTypes == {"k8s", "openshift"}

supportedSizes ==
    [medium |-> [CPU |-> "8 CPUs", RAM |-> "32 GB RAM"],
     large  |-> [CPU |-> "16 CPUs", RAM |-> "64 GB RAM"],
     xlarge |-> [CPU |-> "32 CPUs", RAM |-> "128 GB RAM"]]

isSupportedClusterType(t) == t \in supportedClusterTypes

launchUsage == Part("launchUsage", <<>>)

\* the map literal of the registry
registryLiteral ==
    [launch |-> [Description |-> "Launch a cluster with specified type and size.",
                 Usage |-> "launch <cluster_type> <size>",
                 Handler |-> "HandleLaunch"],
     list   |-> [Description |-> "List all mapt clusters.",
                 Usage |-> "list",
                 Handler |-> "HandleList"]]

\* the registry after init() has added the help entry
commandRegistry ==
    registryLiteral @@
    ("help" :> [Description |-> "Show available commands and usage.",
                Usage |-> "help",
                Handler |-> "handleHelp"])

-----------------------------------------------------------------------------
(* Reply texts *)

NoOut == [via |-> "", channel |-> "", text |-> <<>>]

Outgoing(via, channel, text) == [via |-> via, channel |-> channel, text |-> text]

\* formatSupportedSizes: one line per catalog entry, in the order the range
\* over the supportedSizes map yields them
formatSupportedSizes(order) ==
    [i \in 1..Len(order) |->
        Part("size_line", <<order[i], supportedSizes[order[i]].CPU,
                            supportedSizes[order[i]].RAM>>)]

\* helpEntries from a hand-written list instead of the registry
helpEntriesByHand(order) ==
    <<Part("help_entry", <<"launch", registryLiteral["launch"].Description,
                           registryLiteral["launch"].Usage>>),
      Part("help_entry", <<"list", registryLiteral["list"].Description,
                           registryLiteral["list"].Usage>>)>>

\* the help text: the header, then one entry per registry key in range order
helpEntries(order) ==
    [i \in 1..Len(order) |->
        Part("help_entry", <<order[i], commandRegistry[order[i]].Description,
                             commandRegistry[order[i]].Usage>>)]

helpText(order) == <<Part("help_header", <<>>)>> \o helpEntries(order)

\* HandleLaunch, first check: fewer than two arguments
missingArgs(channel) ==
    Outgoing("respondError", channel, <<Part("missing_arguments", <<>>), launchUsage>>)

\* HandleLaunch from the lower-casing of the arguments to the composed reply
\* (sizesOrder: the range order of this call of formatSupportedSizes)
validateLaunch(args, user, channel, sizesOrder) ==
    LET clusterType == ToLower(args[1])
        size == ToLower(args[2])
    IN  IF ~isSupportedClusterType(clusterType)
        THEN [out |-> Outgoing("respondError", channel,
                               <<Part("unsupported_cluster_type", <<clusterType>>)>>),
              logs |-> <<>>]
        ELSE IF size \notin DOMAIN supportedSizes
        THEN [out |-> Outgoing("respondError", channel,
                               <<Part("invalid_size", <<size>>)>>
                               \o formatSupportedSizes(sizesOrder)),
              logs |-> <<>>]
        ELSE [out |-> Outgoing("HandleLaunch", channel,
                               <<Part("launching", <<clusterType, size, user,
                                                     supportedSizes[size].CPU,
                                                     supportedSizes[size].RAM>>)>>),
              logs |-> <<"Launching cluster">>]

\* blankAfter with the comparison off by one
blankAfterOffByOne(clusterIndex, totalClusters) == clusterIndex <= totalClusters - 1

\* HandleList: whether a blank line follows the entry at clusterIndex
blankAfter(clusterIndex, totalClusters) == clusterIndex < totalClusters - 1

listEntry(item, label, clusterIndex, totalClusters) ==
    <<Part("cluster_entry", <<item.name, label, item.namespace, item.created>>)>>
    \o (IF blankAfter(clusterIndex, totalClusters) THEN <<Part("blank_line", <<>>)>>
        ELSE <<>>)

RECURSIVE listEntries(_, _, _, _)
listEntries(items, label, clusterIndex, totalClusters) ==
    IF items = <<>> THEN <<>>
    ELSE listEntry(Head(items), label, clusterIndex, totalClusters)
         \o listEntries(Tail(items), label, clusterIndex + 1, totalClusters)

\* HandleList after both queries succeeded
listMessage(kindItems, openshiftItems) ==
    LET totalClusters == Len(kindItems) + Len(openshiftItems)
    IN  IF totalClusters = 0 THEN <<Part("no_clusters", <<>>)>>
        ELSE <<PartN("list_header", <<IF totalClusters = 1 THEN "" ELSE "s">>,
                     totalClusters)>>
             \o listEntries(kindItems, "Kubernetes", 0, totalClusters)
             \o listEntries(openshiftItems, "OpenShift", Len(kindItems), totalClusters)

-----------------------------------------------------------------------------
(* Events and control-plane answers *)

EventTypeEventsAPI == "events_api"

\* what the sender typed: nothing, or a keyword followed by arguments
SeqsUpTo(S, n) == UNION {[1..k -> S] : k \in 0..n}

ArgsFor(k) ==
    IF ToLower(k) = "launch" THEN SeqsUpTo(ArgWords, MaxArgs)
    ELSE SeqsUpTo(ArgWords, MaxOtherArgs)

TypedTokens == {<<>>} \cup UNION {{<<k>> \o a : a \in ArgsFor(k)} : k \in KeyWords}

RECURSIVE Join(_, _)
Join(tokens, sep) ==
    IF Len(tokens) <= 1 THEN tokens
    ELSE <<Head(tokens)>> \o sep \o Join(Tail(tokens), sep)

\* the text typed: tightly, or with leading, doubled and trailing whitespace
MkText(tokens, pad) ==
    IF pad THEN <<SP>> \o Join(tokens, <<SP, SP>>) \o <<SP>> ELSE Join(tokens, <<SP>>)

\* a socket-mode event; tokens records what the sender typed and is read by
\* no action
Event(type, dataOK, inner, botID, channel, tokens, pad) ==
    [id |-> 0, type |-> type, dataOK |-> dataOK, inner |-> inner, botID |-> botID,
     user |-> "U1", channel |-> channel, text |-> MkText(tokens, pad),
     tokens |-> tokens]

Message(botID, channel, tokens, pad) ==
    Event(EventTypeEventsAPI, TRUE, "message", botID, channel, tokens, pad)

NoEvent == Event("none", FALSE, "", "", "", <<>>, FALSE)

Channels == {"C1", "C2"}

\* the messages of the single-message specification
CmdEvents ==
    {Message(b, c, t, p) : b \in {"", "B1"}, c \in Channels, t \in TypedTokens,
                           p \in BOOLEAN}

\* the events of the event-loop specification
LoopEvents ==
    {Event("hello", FALSE, "", "", "", <<>>, FALSE),
     Event(EventTypeEventsAPI, FALSE, "", "", "", <<>>, FALSE),
     Event(EventTypeEventsAPI, TRUE, "app_mention", "", "C1", <<"help">>, FALSE),
     Message("B1", "C1", <<"help">>, FALSE),
     Message("", "C1", <<>>, TRUE),
     Message("", "C1", <<"launch", "k8s", "huge">>, FALSE),
     Message("", "C1", <<"LAUNCH", "k8s", "LARGE">>, TRUE),
     Message("", "C1", <<"list">>, FALSE),
     Message("", "C2", <<"help">>, FALSE)}

KindPool ==
    {[name |-> "kind-a", namespace |-> "ns1", created |-> "2025-01-02 03:04:05"],
     [name |-> "kind-b", namespace |-> "ns2", created |-> "2025-06-07 08:09:10"]}

OpenshiftPool ==
    {[name |-> "ocp-a", namespace |-> "ns1", created |-> "2025-02-03 04:05:06"],
     [name |-> "ocp-b", namespace |-> "ns2", created |-> "2025-07-08 09:10:11"]}

\* the item lists a List call may return: distinct resources, in any order
Listings(pool) == UNION {Perms(S) : S \in SUBSET pool}

-----------------------------------------------------------------------------
(* The dispatcher *)

\* route without the BotID check
routeBots(e) ==
    LET fields == Fields(TrimSpace(e.text))
    IN  IF Len(fields) = 0 THEN "ignore"
        ELSE IF ToLower(fields[1]) \in DOMAIN commandRegistry
             THEN ToLower(fields[1])
             ELSE "unknown"

\* route with a case-sensitive registry lookup
routeCaseSensitive(e) ==
    IF e.botID # "" THEN "ignore"
    ELSE LET fields == Fields(TrimSpace(e.text))
         IN  IF Len(fields) = 0 THEN "ignore"
             ELSE IF fields[1] \in DOMAIN commandRegistry
                  THEN fields[1]
                  ELSE "unknown"

\* HandleMessageEvent up to the registry lookup: "ignore" (bot or no token),
\* the registry key, or "unknown"
route(e) ==
    IF e.botID # "" THEN "ignore"
    ELSE LET fields == Fields(TrimSpace(e.text))
         IN  IF Len(fields) = 0 THEN "ignore"
             ELSE IF ToLower(fields[1]) \in DOMAIN commandRegistry
                  THEN ToLower(fields[1])
                  ELSE "unknown"

\* args := fields[1:]
argsOf(e) == Tail(Fields(TrimSpace(e.text)))

\* HandleLaunch up to its first call that leaves the process
enterLaunch(e, args, v, sizesOrder) ==
    IF Len(args) < 2
    THEN [pc |-> "post", out |-> missingArgs(e.channel), logs |-> <<>>]
    ELSE IF v = "probe"
    THEN [pc |-> "launch_client", out |-> NoOut, logs |-> <<>>]
    ELSE LET r == validateLaunch(args, e.user, e.channel, sizesOrder)
         IN  [pc |-> "post", out |-> r.out, logs |-> r.logs]

\* handleHelp up to its PostMessage
enterHelp(e, helpOrder) ==
    [pc |-> "post", out |-> Outgoing("handleHelp", e.channel, helpText(helpOrder)),
     logs |-> <<>>]

\* HandleMessageEvent up to the first call that leaves the process
dispatch(e, v, sizesOrder, helpOrder) ==
    LET r == route(e)
        args == argsOf(e)
    IN  IF r = "ignore"
        THEN [pc |-> "recv", inv |-> <<>>, out |-> NoOut, logs |-> <<>>]
        ELSE IF r = "unknown"
        THEN LET h == enterHelp(e, helpOrder)
             IN  [pc |-> h.pc, inv |-> <<[handler |-> "handleHelp", args |-> <<>>]>>,
                  out |-> h.out, logs |-> <<"Unknown command">> \o h.logs]
        ELSE LET handler == commandRegistry[r].Handler
                 h == IF handler = "HandleLaunch" THEN enterLaunch(e, args, v, sizesOrder)
                      ELSE IF handler = "HandleList"
                      THEN [pc |-> "list_client", out |-> NoOut, logs |-> <<>>]
                      ELSE enterHelp(e, helpOrder)
             IN  [pc |-> h.pc, inv |-> <<[handler |-> handler, args |-> args]>>,
                  out |-> h.out, logs |-> <<"Received command">> \o h.logs]

\* Bot.HandleEvent: only a message event reaches the dispatcher
handleEvent(e, v, sizesOrder, helpOrder) ==
    IF e.inner = "message" THEN dispatch(e, v, sizesOrder, helpOrder)
    ELSE [pc |-> "recv", inv |-> <<>>, out |-> NoOut, logs |-> <<>>]

-----------------------------------------------------------------------------
(* The process *)

\* one control-plane call and the answer it got
Call(op, ok, items) == [op |-> op, ok |-> ok, items |-> items]

Variants == {"plain", "probe"}

Idle ==
    /\ pc = "recv"
    /\ cur = NoEvent
    /\ inv = <<>>
    /\ calls = <<>>
    /\ kinds = <<>>
    /\ out = NoOut
    /\ posts = <<>>
    /\ logs = <<>>
    /\ acks = <<>>
    /\ postOrder = <<>>
    /\ replies = {}

\* fatalMessage without the check of the app-level token
fatalMessageBotOnly(botToken, appToken) ==
    IF botToken = "" THEN "FATAL: SLACK_BOT_TOKEN environment variable is not set."
    ELSE ""

\* main's checks of the two tokens: the message of the log.Fatal reached, or
\* "" when both are set
fatalMessage(botToken, appToken) ==
    IF botToken = "" THEN "FATAL: SLACK_BOT_TOKEN environment variable is not set."
    ELSE IF appToken = "" THEN "FATAL: SLACK_APP_TOKEN environment variable is not set."
    ELSE ""

\* the process after main has passed its checks, built the bot and called Run
Started ==
    [botToken |-> "xoxb-1", appToken |-> "xapp-1", bot |-> TRUE, fatal |-> ""]

\* the process started, nothing delivered yet
Init ==
    /\ proc = Started
    /\ variant \in Variants
    /\ queue = <<>>
    /\ delivered = 0
    /\ Idle

\* the process started, one message waiting in the channel
InitCmd ==
    /\ proc = Started
    /\ variant \in Variants
    /\ queue \in {<<[e EXCEPT !.id = 1]>> : e \in CmdEvents}
    /\ delivered = 1
    /\ Idle

\* the socket-mode client puts an event on s.client.Events
Deliver ==
    /\ pc \notin {"main", "fatal", "crashed"}
    /\ delivered < MaxEvents
    /\ \E e \in LoopEvents :
          queue' = Append(queue, [e EXCEPT !.id = delivered + 1])
    /\ delivered' = delivered + 1
    /\ UNCHANGED <<proc, variant, pc, cur, inv, calls, kinds, out, posts, logs, acks,
                   postOrder, replies>>

\* canReceive if Run started each handler with a go statement
canReceiveAnytime == pc # "crashed"

\* for evt := range s.client.Events: the loop is back at its receive
canReceive == pc = "recv"

\* the channel hands out its oldest event
nextEvent(q) == Head(q)

\* acknowledged if the Ack were made after the payload type assertion
acknowledgedAfterAssertion(e) == e.type = EventTypeEventsAPI /\ e.dataOK

\* whether Run acknowledges the event
acknowledged(e) == e.type = EventTypeEventsAPI

\* one iteration of Run's loop, up to the first call that leaves the process
Take ==
    /\ canReceive
    /\ queue # <<>>
    /\ \E sizesOrder \in Perms(DOMAIN supportedSizes),
          helpOrder \in Perms(DOMAIN commandRegistry) :
          LET e == nextEvent(queue)
              r == IF acknowledged(e) /\ e.dataOK
                   THEN handleEvent(e, variant, sizesOrder, helpOrder)
                   ELSE [pc |-> "recv", inv |-> <<>>, out |-> NoOut, logs |-> <<>>]
          IN  /\ cur' = e
              /\ acks' = IF acknowledged(e) THEN Append(acks, e.id) ELSE acks
              /\ pc' = r.pc
              /\ inv' = r.inv
              /\ out' = r.out
              /\ logs' = r.logs
    /\ queue' = Tail(queue)
    /\ calls' = <<>>
    /\ kinds' = <<>>
    /\ posts' = <<>>
    /\ UNCHANGED <<proc, variant, delivered, postOrder, replies>>

\* HandleLaunch (probe variant): GetKubernetesClient, the unconditional log
\* line, then client.CrClient, which dereferences the nil client on failure
LaunchGetClient ==
    /\ pc = "launch_client"
    /\ logs' = Append(logs, "Error getting kubernetes clinet")
    /\ \E ok \in BOOLEAN :
          /\ calls' = Append(calls, Call("GetKubernetesClient", ok, <<>>))
          /\ pc' = IF ok THEN "launch_list" ELSE "crashed"
    /\ UNCHANGED <<proc, variant, queue, delivered, cur, inv, kinds, out, posts, acks,
                   postOrder, replies>>

\* HandleLaunch (probe variant): the List call into the nil maptList, whose
\* answer (nil or an error) is only logged, then the validation
LaunchList ==
    /\ pc = "launch_list"
    /\ \E ok \in BOOLEAN, sizesOrder \in Perms(DOMAIN supportedSizes) :
          LET r == validateLaunch(inv[1].args, cur.user, cur.channel, sizesOrder)
          IN  /\ calls' = Append(calls, Call("List", ok, <<>>))
              /\ out' = r.out
              /\ logs' = Append(logs, IF ok THEN "Error getting mapt list: nil"
                                      ELSE "Error getting mapt list: err") \o r.logs
    /\ pc' = "post"
    /\ UNCHANGED <<proc, variant, queue, delivered, cur, inv, kinds, posts, acks,
                   postOrder, replies>>

\* HandleList: GetKubernetesClient
ListGetClient ==
    /\ pc = "list_client"
    /\ \/ /\ pc' = "list_kinds"
          /\ calls' = Append(calls, Call("GetKubernetesClient", TRUE, <<>>))
          /\ UNCHANGED <<out, logs>>
       \/ /\ pc' = "post"
          /\ calls' = Append(calls, Call("GetKubernetesClient", FALSE, <<>>))
          /\ logs' = Append(logs, "Error getting kubernetes client")
          /\ out' = Outgoing("respondError", cur.channel,
                             <<Part("failed_to_connect", <<>>)>>)
    /\ UNCHANGED <<proc, variant, queue, delivered, cur, inv, kinds, posts, acks,
                   postOrder, replies>>

\* HandleList: the query for the Kind resources
ListKinds ==
    /\ pc = "list_kinds"
    /\ \/ /\ \E items \in Listings(KindPool) :
                /\ kinds' = items
                /\ calls' = Append(calls, Call("List Kind", TRUE, items))
          /\ pc' = "list_openshift"
          /\ UNCHANGED <<out, logs>>
       \/ /\ pc' = "post"
          /\ calls' = Append(calls, Call("List Kind", FALSE, <<>>))
          /\ logs' = Append(logs, "Error listing MAPT kind clusters")
          /\ out' = Outgoing("respondError", cur.channel,
                             <<Part("failed_to_retrieve", <<>>)>>)
          /\ UNCHANGED kinds
    /\ UNCHANGED <<proc, variant, queue, delivered, cur, inv, posts, acks, postOrder,
                   replies>>

\* ListOpenshift posting the Kind clusters it already has when its query fails
ListOpenshiftPartial ==
    /\ pc = "list_openshift"
    /\ \/ \E items \in Listings(OpenshiftPool) :
            /\ calls' = Append(calls, Call("List Openshift", TRUE, items))
            /\ out' = Outgoing("HandleList", cur.channel, listMessage(kinds, items))
            /\ logs' = IF Len(kinds) + Len(items) = 0 THEN logs
                       ELSE Append(logs, "Listed MAPT clusters")
       \/ /\ calls' = Append(calls, Call("List Openshift", FALSE, <<>>))
          /\ logs' = Append(logs, "Error listing MAPT openshift clusters")
          /\ out' = Outgoing("HandleList", cur.channel, listMessage(kinds, <<>>))
    /\ pc' = "post"
    /\ UNCHANGED <<proc, variant, queue, delivered, cur, inv, kinds, posts, acks,
                   postOrder, replies>>

\* HandleList: the query for the Openshift resources, then the formatting
ListOpenshift ==
    /\ pc = "list_openshift"
    /\ \/ \E items \in Listings(OpenshiftPool) :
            /\ calls' = Append(calls, Call("List Openshift", TRUE, items))
            /\ out' = Outgoing("HandleList", cur.channel, listMessage(kinds, items))
            /\ logs' = IF Len(kinds) + Len(items) = 0 THEN logs
                       ELSE Append(logs, "Listed MAPT clusters")
       \/ /\ calls' = Append(calls, Call("List Openshift", FALSE, <<>>))
          /\ logs' = Append(logs, "Error listing MAPT openshift clusters")
          /\ out' = Outgoing("respondError", cur.channel,
                             <<Part("failed_to_retrieve", <<>>)>>)
    /\ pc' = "post"
    /\ UNCHANGED <<proc, variant, queue, delivered, cur, inv, kinds, posts, acks,
                   postOrder, replies>>

\* what the caller of PostMessage logs when the post fails
postErrLog(via) ==
    CASE via = "respondError" -> <<"Slack error response failed">>
      [] via = "HandleLaunch" -> <<"Error posting launch message">>
      [] via = "HandleList" -> <<"Error posting list message">>
      [] OTHER -> <<>>

\* api.PostMessage by the running handler, which then returns to Run's loop
Post ==
    /\ pc = "post"
    /\ \E ok \in BOOLEAN :
          /\ posts' = Append(posts, [channel |-> out.channel, text |-> out.text,
                                     ok |-> ok])
          /\ logs' = IF ok THEN logs ELSE logs \o postErrLog(out.via)
    /\ postOrder' = Append(postOrder, cur.id)
    /\ replies' = IF inv[1].handler \in {"HandleLaunch", "handleHelp"}
                  THEN replies \cup {[call |-> inv[1], text |-> out.text]}
                  ELSE replies
    /\ out' = NoOut
    /\ pc' = "recv"
    /\ UNCHANGED <<proc, variant, queue, delivered, cur, inv, calls, kinds, acks>>

Handle ==
    \/ Take
    \/ LaunchGetClient
    \/ LaunchList
    \/ ListGetClient
    \/ ListKinds
    \/ ListOpenshift
    \/ Post

Next == Deliver \/ Handle

NextCmd == Handle

\* the process at the entry of main, with any setting of the two variables
InitMain ==
    /\ proc \in [botToken : {"", "xoxb-1"}, appToken : {"", "xapp-1"},
                  bot : {FALSE}, fatal : {""}]
    /\ variant \in Variants
    /\ queue = <<>>
    /\ delivered = 0
    /\ cur = NoEvent
    /\ inv = <<>>
    /\ calls = <<>>
    /\ kinds = <<>>
    /\ out = NoOut
    /\ posts = <<>>
    /\ logs = <<>>
    /\ acks = <<>>
    /\ postOrder = <<>>
    /\ replies = {}
    /\ pc = "main"

\* main: log.Fatal on a missing token, else slack.New and Run
Main ==
    /\ pc = "main"
    /\ LET msg == fatalMessage(proc.botToken, proc.appToken)
       IN  IF msg # ""
           THEN /\ proc' = [proc EXCEPT !.fatal = msg]
                /\ pc' = "fatal"
           ELSE /\ proc' = [proc EXCEPT !.bot = TRUE]
                /\ pc' = "recv"
    /\ UNCHANGED <<variant, queue, delivered, cur, inv, calls, kinds, out, posts,
                   logs, acks, postOrder, replies>>

NextMain == Main \/ Deliver \/ Handle

\* the process from the entry of main
SpecMain == InitMain /\ [][NextMain]_vars

\* the bot serving the events the transport delivers
Spec == Init /\ [][Next]_vars

\* the bot serving one message
SpecCmd == InitCmd /\ [][NextCmd]_vars

-----------------------------------------------------------------------------
(* Claims *)

\* the handler named h was invoked for the event received last
invoked(h) == inv # <<>> /\ inv[1].handler = h

\* the consumer is no longer inside a handler: it returned, or the process died
handlingOver == pc \in {"recv", "crashed"}

\* the message is one the consumer received from a human who typed a command
humanCommand == cur.inner = "message" /\ cur.botID = "" /\ cur.tokens # <<>>

\* C1: every invocation of HandleLaunch makes exactly one post attempt, to the
\* originating channel: never more than one while it runs, and exactly one
\* once it is over, whatever the control-plane calls answered.
C1_LaunchPostsExactlyOnce ==
    invoked("HandleLaunch") =>
        /\ Len(posts) <= 1
        /\ handlingOver => Len(posts) = 1 /\ posts[1].channel = cur.channel

\* whether text is the reply the validation order prescribes for the typed
\* arguments; nothing beyond the second argument is read
prescribedLaunchReply(args, user, text) ==
    IF Len(args) < 2
    THEN text = <<Part("missing_arguments", <<>>), launchUsage>>
    ELSE IF ToLower(args[1]) \notin {"k8s", "openshift"}
    THEN text = <<Part("unsupported_cluster_type", <<ToLower(args[1])>>)>>
    ELSE IF ToLower(args[2]) \notin {"medium", "large", "xlarge"}
    THEN /\ text[1] = Part("invalid_size", <<ToLower(args[2])>>)
         /\ \A i \in 2..Len(text) : text[i].t = "size_line"
    ELSE text = <<Part("launching",
                       <<ToLower(args[1]), ToLower(args[2]), user,
                         supportedSizes[ToLower(args[2])].CPU,
                         supportedSizes[ToLower(args[2])].RAM>>)>>

\* C2: the launch reply is decided by the first failing check, in the order
\* argument count, cluster type, size; with all three passing it is the
\* confirmation; only the first two arguments count.
C2_FirstFailingCheckDecidesReply ==
    (invoked("HandleLaunch") /\ handlingOver) =>
        /\ Len(posts) = 1
        /\ prescribedLaunchReply(Tail(cur.tokens), cur.user, posts[1].text)

\* C3: a message from a bot, whatever its text, or with an empty or
\* whitespace-only text, causes no post, no handler invocation and no
\* control-plane call.
C3_BotAndBlankIgnored ==
    (cur.inner = "message"
     /\ (cur.botID # "" \/ \A i \in DOMAIN cur.text : cur.text[i] = SP)) =>
        /\ posts = <<>>
        /\ inv = <<>>
        /\ calls = <<>>
        /\ out = NoOut
        /\ pc = "recv"

\* C3 witness: a bot's message that spells a valid launch command was received
C3_Witness ==
    /\ cur.botID = "B1"
    /\ cur.tokens = <<"launch", "k8s", "LARGE">>
    /\ queue = <<>>

\* the handler registered under a lower-case keyword
registeredHandler(k) ==
    CASE k = "launch" -> "HandleLaunch"
      [] k = "list" -> "HandleList"
      [] k = "help" -> "handleHelp"
      [] OTHER -> "none"

\* C4: a human's message with at least one token invokes exactly one handler:
\* the one registered under the lower-cased first token, with the remaining
\* tokens unchanged, or, for an unregistered token, help with an
\* unknown-command log line.
C4_RoutesOnLowerCasedKeyword ==
    humanCommand =>
        LET k == ToLower(cur.tokens[1])
        IN  IF registeredHandler(k) # "none"
            THEN /\ inv = <<[handler |-> registeredHandler(k),
                             args |-> Tail(cur.tokens)]>>
                 /\ \A i \in DOMAIN logs : logs[i] # "Unknown command"
            ELSE /\ inv = <<[handler |-> "handleHelp", args |-> <<>>]>>
                 /\ logs # <<>>
                 /\ logs[1] = "Unknown command"

\* C4 witness: an upper-case keyword typed with padding and an argument
C4_Witness ==
    /\ humanCommand
    /\ cur.tokens = <<"HELP", "LARGE">>
    /\ cur.text[1] = SP
    /\ Len(posts) = 1

\* some control-plane call of the running handler failed
failedCall == \E i \in DOMAIN calls : ~calls[i].ok

\* the error reply for a failure of the call op
errorReply(op) ==
    IF op = "GetKubernetesClient" THEN <<Part("failed_to_connect", <<>>)>>
    ELSE <<Part("failed_to_retrieve", <<>>)>>

\* the log line naming the cause of a failure of the call op
causeLine(op) ==
    CASE op = "GetKubernetesClient" -> "Error getting kubernetes client"
      [] op = "List Kind" -> "Error listing MAPT kind clusters"
      [] op = "List Openshift" -> "Error listing MAPT openshift clusters"

showsCluster(text) == \E i \in DOMAIN text : text[i].t = "cluster_entry"

\* C5: when the client construction or either query of HandleList fails, no
\* later call is made, the cause is logged, the one post made is the error
\* reply, and no post shows a cluster entry.
C5_ListFailureAborts ==
    (invoked("HandleList") /\ failedCall) =>
        LET last == calls[Len(calls)]
        IN  /\ \A i \in 1..(Len(calls) - 1) : calls[i].ok
            /\ \E i \in DOMAIN logs : logs[i] = causeLine(last.op)
            /\ \A i \in DOMAIN posts : ~showsCluster(posts[i].text)
            /\ pc \in {"post", "recv"}
            /\ pc = "post" => posts = <<>> /\ out.text = errorReply(last.op)
            /\ pc = "recv" => /\ Len(posts) = 1
                              /\ posts[1].text = errorReply(last.op)
                              /\ posts[1].channel = cur.channel

\* C5 witness: the Openshift query failed after the Kind query returned two
\* clusters, and the handler has returned
C5_Witness ==
    /\ invoked("HandleList")
    /\ pc = "recv"
    /\ Len(calls) = 3
    /\ ~calls[3].ok
    /\ Len(calls[2].items) = 2

\* C6: when both queries succeed HandleList posts once: the fixed message
\* for no clusters, else a header and one entry per cluster, Kubernetes
\* before OpenShift, each group in the order returned, with one blank line
\* between consecutive entries and none after the last.
C6_ListReplyShape ==
    (invoked("HandleList") /\ Len(calls) = 3 /\ calls[3].ok) =>
        LET ks == calls[2].items
            os == calls[3].items
            N == Len(ks) + Len(os)
            entry(j) ==
                IF j <= Len(ks)
                THEN Part("cluster_entry", <<ks[j].name, "Kubernetes",
                                             ks[j].namespace, ks[j].created>>)
                ELSE Part("cluster_entry", <<os[j - Len(ks)].name, "OpenShift",
                                             os[j - Len(ks)].namespace,
                                             os[j - Len(ks)].created>>)
            text == IF pc = "post" THEN out.text ELSE posts[1].text
        IN  /\ Len(posts) = IF pc = "post" THEN 0 ELSE 1
            /\ pc \in {"post", "recv"}
            /\ IF N = 0 THEN text = <<Part("no_clusters", <<>>)>>
               ELSE /\ Len(text) = 2 * N
                    /\ text[1].t = "list_header"
                    /\ text[1].n = N
                    /\ \A j \in 1..N : text[2 * j] = entry(j)
                    /\ \A j \in 1..(N - 1) : text[2 * j + 1] = Part("blank_line", <<>>)

\* C6 witness: two Kubernetes clusters and no OpenShift cluster were listed
C6_Witness ==
    /\ invoked("HandleList")
    /\ pc = "recv"
    /\ Len(calls) = 3
    /\ calls[3].ok
    /\ Len(calls[2].items) = 2
    /\ calls[3].items = <<>>
    /\ Len(posts) = 1

\* C7: the help reply, reached by the help keyword or by an unknown one, is
\* one post with one entry per registered command, help included, each with
\* that command's usage.
C7_HelpListsRegistry ==
    invoked("handleHelp") =>
        LET text == IF pc = "post" THEN out.text ELSE posts[1].text
            entries == Tail(text)
        IN  /\ Len(posts) = IF pc = "post" THEN 0 ELSE 1
            /\ pc \in {"post", "recv"}
            /\ text[1] = Part("help_header", <<>>)
            /\ Len(entries) = Cardinality(DOMAIN commandRegistry)
            /\ {entries[i].a[1] : i \in DOMAIN entries} = {"launch", "list", "help"}
            /\ \A i \in DOMAIN entries :
                  /\ entries[i].t = "help_entry"
                  /\ entries[i].a[3] = commandRegistry[entries[i].a[1]].Usage

\* C7 witness: an unknown keyword was answered with the help listing
C7_Witness ==
    /\ humanCommand
    /\ cur.tokens[1] = "bogus"
    /\ invoked("handleHelp")
    /\ pc = "recv"
    /\ Len(posts) = 1

\* C8: two launch or help invocations with the same arguments post the same
\* text (the size and help listings come out in one fixed order).
C8_SameArgumentsSameReply ==
    \A r1, r2 \in replies : r1.call = r2.call => r1.text = r2.text

\* the log lines the handlers write when PostMessage fails
postFailureLines ==
    {"Slack error response failed", "Error posting launch message",
     "Error posting list message"}

\* C9: a failed post is logged, is the only post made for the message, and
\* leaves the consumer back at its receive.
C9_FailedPostLoggedNotRetried ==
    (posts # <<>> /\ ~posts[Len(posts)].ok) =>
        /\ Len(posts) = 1
        /\ pc = "recv"
        /\ \E i \in DOMAIN logs : logs[i] \in postFailureLines

\* C10: the consumer takes an event only when the handling of the previous
\* one is over, takes the events in delivery order, and the replies are
\* posted in that order.
C10_OneEventAtATime ==
    [][/\ cur'.id # cur.id => pc = "recv" /\ cur'.id = cur.id + 1
       /\ postOrder' # postOrder =>
            /\ postOrder' = Append(postOrder, cur.id)
            /\ cur' = cur
            /\ \A i \in DOMAIN postOrder : postOrder[i] < cur.id]_vars

\* C10 witness: the second event waits in the channel while the handler of
\* the first is inside its second control-plane query
C10_Witness ==
    /\ pc = "list_openshift"
    /\ cur.id = 1
    /\ Len(queue) = 1
    /\ queue[1].id = 2
    /\ queue[1].tokens = <<"launch", "k8s", "huge">>

\* the ids acknowledged so far
ackedIds == {acks[i] : i \in DOMAIN acks}

\* C12: an Events-API event is acknowledged exactly once, in the step that
\* receives it and so before any handler step, also when its payload is no
\* Events-API value (then nothing is dispatched) and when the handler stalls
\* in a call or the process dies; any other event is neither acknowledged nor
\* dispatched; an event still in the channel is not acknowledged.
C12_AckOnceBeforeHandling ==
    /\ [](/\ \A i, j \in DOMAIN acks : i # j => acks[i] # acks[j]
          /\ \A i \in DOMAIN queue : queue[i].id \notin ackedIds
          /\ cur # NoEvent =>
                /\ cur.id \in ackedIds <=> cur.type = EventTypeEventsAPI
                /\ (inv # <<>> \/ pc # "recv") => cur.id \in ackedIds
                /\ (cur.type # EventTypeEventsAPI \/ ~cur.dataOK) =>
                      inv = <<>> /\ calls = <<>> /\ posts = <<>> /\ pc = "recv")
    /\ [][IF cur'.id # cur.id /\ cur'.type = EventTypeEventsAPI
          THEN acks' = Append(acks, cur'.id)
          ELSE acks' = acks]_vars

\* C12 witness: after an event of another type, an Events-API event whose
\* payload is no Events-API value was received: only it was acknowledged
C12_Witness ==
    /\ cur.id = 2
    /\ cur.type = EventTypeEventsAPI
    /\ ~cur.dataOK
    /\ acks = <<2>>
    /\ inv = <<>>

\* C11: with the bot-level or the app-level token empty the process never
\* builds a bot and never receives, acknowledges or is delivered an event,
\* and main ends in log.Fatal with the message naming the first missing
\* variable; the event loop runs only with both tokens set.
C11_MissingTokenIsFatal ==
    /\ (proc.botToken = "" \/ proc.appToken = "") =>
          /\ pc \in {"main", "fatal"}
          /\ ~proc.bot
          /\ delivered = 0 /\ queue = <<>> /\ cur = NoEvent /\ acks = <<>>
    /\ pc = "fatal" =>
          /\ proc.botToken = "" \/ proc.appToken = ""
          /\ proc.fatal = IF proc.botToken = ""
                          THEN "FATAL: SLACK_BOT_TOKEN environment variable is not set."
                          ELSE "FATAL: SLACK_APP_TOKEN environment variable is not set."
    /\ pc \notin {"main", "fatal"} =>
          proc.botToken # "" /\ proc.appToken # "" /\ proc.bot /\ proc.fatal = ""
    /\ pc = "main" => ~proc.bot /\ proc.fatal = "" /\ delivered = 0

\* C11 witness: main ended fatally with only the app-level token missing
C11_Witness ==
    /\ pc = "fatal"
    /\ proc.botToken = "xoxb-1"
    /\ proc.appToken = ""
    /\ proc.fatal # ""

====
